---------------------------- MODULE Spec2Model ----------------------------
(***************************************************************************)
(* A model of ScraperAPI (src/LinkedInScrapper.py): the job state shared   *)
(* between the UI-facing entry points and the background scrape worker,    *)
(* the verification gate, the pagination loop, payload normalisation and   *)
(* the card parser.                                                        *)
(*                                                                         *)
(* Python strings are modelled as sequences of tokens (one-character       *)
(* strings, plus a few multi-character markers such as "/posts/" that the  *)
(* code tests with `in`), so that strip(), split("?") and int() are        *)
(* computed rather than assumed.                                           *)
(***************************************************************************)
EXTENDS Integers, Sequences, FiniteSets, TLC

VARIABLES
    status,        \* self.status
    logs,          \* self.logs (the "[HH:MM:SS] " prefix of an entry is wall-clock text and is left out)
    output_path,   \* self.output_path ("None" or a path)
    resume_event,  \* self._resume_event: TRUE when set
    workers,       \* the _scrape threads ever started: id -> local state
    calls,         \* the UI threads executing start_scrape / resume_after_verification
    files,         \* number of CSV files written by _write_csv
    pushed,        \* history: the number of _push_log calls so far
    prevResume,    \* history: TRUE when the last entry-point call to complete was a successful resume
    lock,          \* self._lock: "free" or the thread holding it
    poll,          \* the UI thread executing get_progress, and the copy it is building
    poster,        \* self._poster_thread, self._poster_driver, the poster threads and the calls starting them
    fn             \* input and output of the pure function under study (SpecNorm, SpecParse)

vars == <<status, logs, output_path, resume_event, workers, calls, files, pushed, prevResume,
         lock, poll, poster, fn>>

-----------------------------------------------------------------------------
(* Bounds of the model.                                                    *)

\* number of _push_log calls in a behaviour: a thread about to push once the
\* budget is spent is not scheduled any further
MaxPushes == 9
\* number of start_scrape calls that get past the status test (= _scrape threads)
MaxStarts == 2
\* number of poster threads created by poster_login / poster_generate_and_post
MaxPosterStarts == 2
\* number of poster_login / poster_generate_and_post calls in a behaviour
MaxPosterCalls == 2

-----------------------------------------------------------------------------
(* Strings.                                                                *)

IsSpace(c) == c \in {" ", "\n"}

RECURSIVE LStrip(_)
LStrip(s) == IF s = <<>> THEN s
             ELSE IF IsSpace(Head(s)) THEN LStrip(Tail(s)) ELSE s

RECURSIVE RStrip(_)
RStrip(s) == IF s = <<>> THEN s
             ELSE IF IsSpace(s[Len(s)]) THEN RStrip(SubSeq(s, 1, Len(s) - 1)) ELSE s

\* str.strip()
Strip(s) == RStrip(LStrip(s))

\* re.sub(r"\s+", " ", value): every run of whitespace becomes one space
RECURSIVE CollapseSpaces(_)
CollapseSpaces(s) ==
    IF s = <<>> THEN s
    ELSE IF IsSpace(Head(s))
         THEN <<" ">> \o CollapseSpaces(LStrip(s))
         ELSE <<Head(s)>> \o CollapseSpaces(Tail(s))

clean_csv_field(value) == Strip(CollapseSpaces(value))

Contains(s, tok) == \E i \in 1..Len(s) : s[i] = tok

\* the index of the first occurrence of tok in s, Len(s)+1 when there is none
RECURSIVE IndexOf(_, _)
IndexOf(s, tok) == IF s = <<>> THEN 1
                   ELSE IF Head(s) = tok THEN 1 ELSE 1 + IndexOf(Tail(s), tok)

\* s.split(tok)[0]
SplitFirst(s, tok) == SubSeq(s, 1, IndexOf(s, tok) - 1)

-----------------------------------------------------------------------------
(* Python values as they arrive in the JS payload.                         *)

PyNone     == [t |-> "none", s |-> <<>>, n |-> 0]
PyStr(x)   == [t |-> "str",  s |-> x,    n |-> 0]
PyInt(k)   == [t |-> "int",  s |-> <<>>, n |-> k]
PyList(x)  == [t |-> "list", s |-> x,    n |-> 0]

\* bool(v)
Truthy(v) == CASE v.t = "none" -> FALSE
               [] v.t = "str"  -> v.s # <<>>
               [] v.t = "int"  -> v.n # 0
               [] v.t = "list" -> v.s # <<>>

\* v or d
PyOr(v, d) == IF Truthy(v) THEN v ELSE d

Digits == {"0", "1", "2", "3"}
DigitVal(c) == CASE c = "0" -> 0 [] c = "1" -> 1 [] c = "2" -> 2 [] c = "3" -> 3

RECURSIVE DigitsVal(_, _)
DigitsVal(s, acc) == IF s = <<>> THEN acc
                     ELSE DigitsVal(Tail(s), 10 * acc + DigitVal(Head(s)))

AllDigits(s) == s # <<>> /\ \A i \in 1..Len(s) : s[i] \in Digits

\* int(v): [exc, n]; a string is stripped, may carry a sign, and must then be digits
PyIntOf(v) ==
    CASE v.t = "int" -> [exc |-> "none", n |-> v.n]
      [] v.t = "str" ->
           LET b == Strip(v.s)
               signed == b # <<>> /\ Head(b) \in {"-", "+"}
               d == IF signed THEN Tail(b) ELSE b
           IN  IF AllDigits(d)
               THEN [exc |-> "none",
                     n |-> IF signed /\ Head(b) = "-" THEN 0 - DigitsVal(d, 0) ELSE DigitsVal(d, 0)]
               ELSE [exc |-> "ValueError", n |-> 0]
      [] OTHER -> [exc |-> "TypeError", n |-> 0]

Max(a, b) == IF a >= b THEN a ELSE b

\* (payload.get(key) or "").strip()
StrField(v) ==
    LET x == PyOr(v, PyStr(<<>>))
    IN  IF x.t = "str" THEN [exc |-> "none", s |-> Strip(x.s)]
        ELSE [exc |-> "AttributeError", s |-> <<>>]

NoData == [email |-> <<>>, password |-> PyStr(<<>>), search_term |-> <<>>, page_limit |-> 0]

\* _normalize_payload: [exc, data]; exc is the exception that leaves the function
NormalizePayload(payload) ==
    LET raw   == PyOr(payload.pages, PyInt(1))
        conv  == PyIntOf(raw)
        email == StrField(payload.email)
        term  == StrField(payload.searchTerm)
    IN  IF conv.exc = "TypeError" THEN [exc |-> "TypeError", data |-> NoData]
        ELSE IF email.exc # "none" THEN [exc |-> email.exc, data |-> NoData]
        ELSE IF term.exc # "none" THEN [exc |-> term.exc, data |-> NoData]
        ELSE [exc |-> "none",
              data |-> [email |-> email.s,
                        password |-> PyOr(payload.password, PyStr(<<>>)),
                        search_term |-> term.s,
                        page_limit |-> IF conv.exc = "ValueError" THEN 1 ELSE Max(1, conv.n)]]

MissingRequiredNoTerm(data) == data.email = <<>> \/ ~Truthy(data.password)

\* the test of _scrape line 156
MissingRequired(data) ==
    data.email = <<>> \/ ~Truthy(data.password) \/ data.search_term = <<>>

-----------------------------------------------------------------------------
(* The card parser.  A card is what the DOM queries of _parse_post_card    *)
(* return: the texts of the elements matching each selector list, the href *)
(* attributes of its a.app-aware-link anchors, and its data-urn values.    *)

\* _safe_text: the stripped text of the first element whose text is not blank
RECURSIVE SafeText(_)
SafeText(els) ==
    IF els = <<>> THEN <<>>
    ELSE IF Strip(Head(els)) # <<>> THEN Strip(Head(els)) ELSE SafeText(Tail(els))

FeedUpdate == "https://www.linkedin.com/feed/update/"

\* _extract_post_link
ExtractPostLink(card) ==
    LET NonEmpty(u)  == u # <<>>
        IsPost(u)    == Contains(u, "/posts/") \/ Contains(u, "/feed/update")
        IsUrn(u)     == Contains(u, "urn:li:activity:")
        IsHttp(u)    == Head(u) = "http"
        First(m) == IF m = <<>> THEN <<"none">> ELSE <<"some", Head(m)>>
        urls  == SelectSeq(card.hrefs, NonEmpty)
        post  == First(SelectSeq(urls, IsPost))
        act   == First(SelectSeq(urls, IsUrn))
        http  == First(SelectSeq(urls, IsHttp))
        inner == First(SelectSeq(card.urns, IsUrn))
    IN  IF post[1] = "some" THEN SplitFirst(post[2], "?")
        ELSE IF act[1] = "some" THEN <<FeedUpdate>> \o SplitFirst(act[2], "?")
        ELSE IF http[1] = "some" THEN SplitFirst(http[2], "?")
        ELSE IF IsUrn(card.urn) THEN <<FeedUpdate>> \o card.urn
        ELSE IF inner[1] = "some" THEN <<FeedUpdate>> \o inner[2]
        ELSE IF urls # <<>> THEN SplitFirst(urls[1], "?")
        ELSE <<>>

\* the text's first line holding tok, stripped; <<>> when no line holds it
RECURSIVE LineWith(_, _)
LineWith(text, tok) ==
    IF text = <<>> THEN <<>>
    ELSE LET line == SplitFirst(text, "\n")
             rest == SubSeq(text, Len(line) + 2, Len(text))
         IN  IF Contains(line, tok) THEN Strip(line) ELSE LineWith(rest, tok)

\* what follows the label tok on its line (the regex "label\s*[:\-]\s*(...)" at token level)
AfterLabel(text, tok) ==
    IF ~Contains(text, tok) THEN <<>>
    ELSE Strip(SplitFirst(SubSeq(text, IndexOf(text, tok) + 1, Len(text)), "\n"))

\* _extract_job_title_from_text: the labelled title, else the first line naming a role
ExtractJobTitle(text) ==
    IF AfterLabel(text, "title:") # <<>> THEN AfterLabel(text, "title:")
    ELSE LineWith(text, "engineer")

\* _extract_location_from_text
ExtractLocation(text) == AfterLabel(text, "location:")

\* _extract_job_type_from_text
ExtractJobType(text) ==
    IF Contains(text, "full-time") THEN <<"Full-time">>
    ELSE IF Contains(text, "part-time") THEN <<"Part-time">>
    ELSE IF Contains(text, "contract") THEN <<"Contract">>
    ELSE IF Contains(text, "intern") THEN <<"Internship">>
    ELSE <<>>

\* _extract_workplace_type_from_text
ExtractWorkplace(text) ==
    IF Contains(text, "remote") THEN <<"Remote">>
    ELSE IF Contains(text, "hybrid") THEN <<"Hybrid">>
    ELSE IF Contains(text, "on-site") THEN <<"On-site">>
    ELSE <<>>

\* _extract_section_from_text: the text from the keyword on (the code joins its
\* first four non-blank lines; the texts of this model have at most two lines)
ExtractSection(text, keyword) ==
    IF ~Contains(text, keyword) THEN <<>>
    ELSE Strip(SubSeq(text, IndexOf(text, keyword), Len(text)))

\* _extract_contact_details, _extract_salary: the token the regex matches, if present
ExtractToken(text, tok) == IF Contains(text, tok) THEN <<tok>> ELSE <<>>

\* writer column order and the keys of a row
Headers == <<"Author name", "Job Tittle", "Location", "Job type(full time/ Part-Time)",
             "Remote/Onsite", "Job Description", "Post Date/Time", "required Qualification",
             "Required SKills", "Post Link", "Contact Destil (email/web-link/Contact number)",
             "salary Pkg">>

\* a log entry: the message and the numbers formatted into it
Entry(msg, a, b) == [msg |-> msg, a |-> a, b |-> b]
L(msg) == Entry(msg, 0, 0)

LSkip == L("Skipped a card (no author/snippet/link detected).")

ParsePostCardAllNeeded(card) ==
    IF SafeText(card.author) # <<>> /\ SafeText(card.snippet) # <<>> /\ ExtractPostLink(card) # <<>>
    THEN [ret |-> "row", row |-> [h \in {Headers[j] : j \in 1..Len(Headers)} |-> <<"x">>], log |-> <<>>]
    ELSE [ret |-> "None", row |-> <<>>, log |-> <<LSkip>>]

\* _parse_post_card: [ret, row, log]; log holds the entries it pushes
ParsePostCard(card) ==
    LET author   == SafeText(card.author)
        postTime == SafeText(card.time)
        snippet  == SafeText(card.snippet)
        postUrl  == ExtractPostLink(card)
    IN  IF ~(author # <<>> \/ snippet # <<>> \/ postUrl # <<>>)
        THEN [ret |-> "None", row |-> <<>>, log |-> <<LSkip>>]
        ELSE [ret |-> "row",
              row |-> ("Author name" :> clean_csv_field(author))
                   @@ ("Job Tittle" :> clean_csv_field(ExtractJobTitle(snippet)))
                   @@ ("Location" :> clean_csv_field(ExtractLocation(snippet)))
                   @@ ("Job type(full time/ Part-Time)" :> clean_csv_field(ExtractJobType(snippet)))
                   @@ ("Remote/Onsite" :> clean_csv_field(ExtractWorkplace(snippet)))
                   @@ ("Job Description" :> clean_csv_field(snippet))
                   @@ ("Post Date/Time" :> clean_csv_field(postTime))
                   @@ ("required Qualification" :> clean_csv_field(ExtractSection(snippet, "requirements")))
                   @@ ("Required SKills" :> clean_csv_field(ExtractSection(snippet, "skills")))
                   @@ ("Post Link" :> clean_csv_field(postUrl))
                   @@ ("Contact Destil (email/web-link/Contact number)" :>
                           clean_csv_field(ExtractToken(snippet, "a@b.co")))
                   @@ ("salary Pkg" :> clean_csv_field(ExtractToken(snippet, "$100"))),
              log |-> <<>>]

\* _write_csv's file: the header row, then one cleaned line per row in column order
WriteCsv(rows) ==
    <<Headers>> \o [i \in 1..Len(rows) |->
                      [j \in 1..Len(Headers) |-> clean_csv_field(rows[i][Headers[j]])]]

-----------------------------------------------------------------------------
(* The inputs the model draws from.                                        *)

Payload(email, password, term, pages) ==
    [email |-> email, password |-> password, searchTerm |-> term, pages |-> pages]

NoPayload == Payload(PyNone, PyNone, PyNone, PyNone)

\* the requests submitted to start_scrape: one page, two pages, a blank search
\* term, and a JSON array as "pages"
MainPayloads ==
    { Payload(PyStr(<<"e">>), PyStr(<<"p">>), PyStr(<<"q">>), PyNone),
      Payload(PyStr(<<" ", "e">>), PyStr(<<"p">>), PyStr(<<"q">>), PyStr(<<"2">>)),
      Payload(PyStr(<<"e">>), PyStr(<<"p">>), PyStr(<<" ">>), PyStr(<<"2">>)),
      Payload(PyStr(<<"e">>), PyStr(<<"p">>), PyStr(<<"q">>), PyList(<<"2">>)) }

\* the requests _normalize_payload is studied on
NormPayloads ==
    { Payload(e, pw, t, pg) :
        e  \in {PyNone, PyStr(<<>>), PyStr(<<" ">>), PyStr(<<" ", "e">>), PyInt(7)},
        pw \in {PyNone, PyStr(<<>>), PyStr(<<" ">>), PyStr(<<"p">>)},
        t  \in {PyNone, PyStr(<<"\n">>), PyStr(<<"q", " ">>)},
        pg \in {PyNone, PyStr(<<>>), PyStr(<<"0">>), PyStr(<<"2">>), PyStr(<<" ", "1", "3">>),
                PyStr(<<"-", "2">>), PyStr(<<"a">>), PyStr(<<"2", "a">>), PyStr(<<"-">>),
                PyInt(0), PyInt(0 - 3), PyInt(3), PyList(<<>>), PyList(<<"2">>)} }

Card(author, time, snippet, hrefs, urn, urns) ==
    [author |-> author, time |-> time, snippet |-> snippet, hrefs |-> hrefs,
     urn |-> urn, urns |-> urns]

\* the cards _parse_post_card is studied on
ParseCards ==
    { Card(a, tm, sn, h, u, us) :
        a  \in {<<>>, << <<" ">> >>, << <<" ">>, <<" ", "A", " ", "\n", "B">> >>},
        tm \in {<<>>, << <<"2h">> >>},
        sn \in {<<>>, << <<"\n">> >>, << <<"title:", " ", "x", "\n", "remote">> >>},
        h  \in {<<>>, << <<>> >>, << <<"?", "q">> >>, << <<"js">> >>,
                << <<"http", "x", "?", "q">> >>,
                << <<"js">>, <<"http", "/posts/", "1", "?", "q">> >>,
                << <<"http", "urn:li:activity:", "7", "?", "q">> >>},
        u  \in {<<>>, <<"urn:li:activity:", "5">>},
        us \in {<<>>, << <<"urn:li:x">>, <<"urn:li:activity:", "8">> >>} }

GoodCard  == Card(<< <<"A">> >>, <<>>, << <<"x">> >>, << <<"http", "/posts/", "1", "?", "q">> >>, <<>>, <<>>)
BlankCard == Card(<< <<" ">> >>, <<>>, <<>>, <<>>, <<>>, <<>>)

\* what _find_cards may return for a page
PageCardLists == { <<>>, <<GoodCard>>, <<BlankCard>> }

-----------------------------------------------------------------------------
(* State.                                                                  *)

\* the UI thread: it issues the entry-point calls one at a time, each running
\* concurrently with the _scrape threads
Callers == {"ui"}

NoPath == <<>>
Path(k) == <<"output/linkedin_posts.csv", k>>

LPrepare   == L("Preparing the browser and logging in...")
LContinue  == L("Continue clicked. Resuming after manual verification.")
LMissing   == L("Missing required fields.")
LLogin     == L("Login attempt complete.")
LVerify    == L("Verification required. Enter the code in the LinkedIn window, then click 'Continue' in the app.")
LAck       == L("Verification acknowledged, continuing.")
LQuery     == L("Using posts query")
LError     == L("Error")
LNoResults == L("No results detected yet; continuing.")
LNoCards   == L("No post cards found on this page.")
LPosterNoCreds == L("Poster login missing email or password.")
LPosterNoTitle == L("Poster missing title.")
LPosterOpen    == L("Poster login: opening LinkedIn...")
LPosterDone    == L("Poster login complete.")
LPosterError   == L("Poster error")
LGenError      == L("generation error")
LImage         == L("Image saved")
LNoImage       == L("Image generation failed or skipped.")
LPdf           == L("PDF saved")

\* _push_log: the append made with the lock held
PushLog(entry) == Append(logs, entry)

\* a thread entering _push_log: it takes the lock, which must be free
CanLog == pushed < MaxPushes /\ lock = "free"

\* pc: the line the call is at; ret, kind: what it returned and how it ended
\* ("noop_start", "started", "noop_resume", "resumed"); after: history, TRUE
\* when the call directly follows a successful resume
IdleCall == [pc |-> "idle", ret |-> "none", kind |-> "none", after |-> FALSE]

\* the local state of a _scrape thread as it starts; kind is the target of
\* the thread ("scrape", "poster_login", "poster_post") and creds tells whether
\* a poster thread was given both an email and a password; visited (the pages
\* driver.get was issued for) and kept (the rows each finished page returned)
\* are history
NewWorker(payload) ==
    [pc |-> "start", payload |-> payload, data |-> NoData, page |-> 0,
     driver |-> "none", results |-> <<>>, cards |-> <<>>, parsed |-> <<>>,
     raised |-> FALSE, wrote |-> "none", gate |-> "none",
     kind |-> "scrape", creds |-> FALSE, visited |-> <<>>, kept |-> <<>>]

\* no get_progress call in progress
IdlePoll == [pc |-> "idle", logs |-> <<>>, status |-> "none", logsRun |-> 0, statusRun |-> 0]

\* the UI threads executing poster_login / poster_generate_and_post
PosterCallers == {"js1", "js2"}

\* pc: the line the call is at; op: the entry point; creds: the payload holds
\* both an email and a password; ret: what it returned
IdlePosterCall == [pc |-> "idle", op |-> "none", creds |-> FALSE, ret |-> "none"]

\* self._poster_thread (0: None, else the thread), self._poster_driver, the
\* calls in progress, and the number of calls made so far
NoPoster == [thread |-> 0, driver |-> "none", entered |-> 0,
             calls |-> [c \in PosterCallers |-> IdlePosterCall]]

NoFn == [name |-> "none", arg |-> <<>>, out |-> <<>>]

\* ScraperAPI.__init__
InitApi ==
    /\ status = "idle"
    /\ logs = <<>>
    /\ output_path = NoPath
    /\ resume_event = FALSE
    /\ workers = <<>>
    /\ calls = [c \in Callers |-> IdleCall]
    /\ files = <<>>
    /\ pushed = 0
    /\ prevResume = FALSE
    /\ lock = "free"
    /\ poll = IdlePoll
    /\ poster = NoPoster

Init == InitApi /\ fn = NoFn

WorkerIds == 1..Len(workers)

\* threading.Thread.is_alive()
Alive(w) == workers[w].pc \notin {"unstarted", "done", "crashed"}

Returns(c, ret, kind) ==
    calls' = [calls EXCEPT ![c].pc = "ret", ![c].ret = ret, ![c].kind = kind, ![c].after = FALSE]
Goto(c, pc) == calls' = [calls EXCEPT ![c].pc = pc]
WGoto(w, pc) == workers' = [workers EXCEPT ![w].pc = pc]

\* the name of thread w as a holder of the lock
Tid(w) == "thread" \o ToString(w)

\* thread w exists and is at pc; the with block of _push_log has ended, so the
\* thread no longer holds the lock
AtHolding(w, pc) == w \in WorkerIds /\ workers[w].pc = pc

At(w, pc) == w \in WorkerIds /\ workers[w].pc = pc /\ lock # Tid(w)

-----------------------------------------------------------------------------
(* start_scrape, one step per access to the shared state.  The payload is  *)
(* read only when the thread is created, so it is drawn there.             *)

StartCheckNoTest(c) ==
    /\ calls[c].pc = "idle" /\ lock # c
    /\ Len(workers) < MaxStarts
    /\ Goto(c, "s110")
    /\ prevResume' = FALSE
    /\ UNCHANGED <<status, logs, output_path, resume_event, workers, files, pushed, fn, lock, poll, poster>>

\* line 107-108: the status test, and the early return
StartCheck(c) ==
    /\ calls[c].pc = "idle" /\ lock # c
    /\ IF status = "running"
       THEN Returns(c, "running", "noop_start")
       ELSE /\ Len(workers) < MaxStarts
            /\ Goto(c, "s110")
    /\ prevResume' = FALSE
    /\ UNCHANGED <<status, logs, output_path, resume_event, workers, files, pushed, fn, lock, poll, poster>>

\* line 110
Start110(c) ==
    /\ calls[c].pc = "s110" /\ lock # c
    /\ status' = "running"
    /\ Goto(c, "s111")
    /\ UNCHANGED <<logs, output_path, resume_event, workers, files, pushed, prevResume, fn, lock, poll, poster>>

\* line 111
Start111(c) ==
    /\ calls[c].pc = "s111" /\ lock # c
    /\ logs' = <<>>
    /\ Goto(c, "s112")
    /\ UNCHANGED <<status, output_path, resume_event, workers, files, pushed, prevResume, fn, lock, poll, poster>>

\* line 112
Start112(c) ==
    /\ calls[c].pc = "s112" /\ lock # c
    /\ output_path' = NoPath
    /\ Goto(c, "s113")
    /\ UNCHANGED <<status, logs, resume_event, workers, files, pushed, prevResume, fn, lock, poll, poster>>

\* line 113
Start113(c) ==
    /\ calls[c].pc = "s113" /\ lock # c
    /\ resume_event' = FALSE
    /\ Goto(c, "s114")
    /\ UNCHANGED <<status, logs, output_path, workers, files, pushed, prevResume, fn, lock, poll, poster>>

\* line 114
Start114(c) ==
    /\ calls[c].pc = "s114" /\ lock # c
    /\ CanLog
    /\ logs' = PushLog(LPrepare)
    /\ Goto(c, "s115")
    /\ pushed' = pushed + Len(logs') - Len(logs)
    /\ lock' = c
    /\ UNCHANGED <<status, output_path, resume_event, workers, files, prevResume, fn, poll, poster>>

\* lines 115-117: the thread is created and started
Start115(c) ==
    /\ calls[c].pc = "s115" /\ lock # c
    /\ \E payload \in MainPayloads : workers' = Append(workers, NewWorker(payload))
    /\ Returns(c, "running", "started")
    /\ UNCHANGED <<status, logs, output_path, resume_event, files, pushed, prevResume, fn, lock, poll, poster>>

-----------------------------------------------------------------------------
(* resume_after_verification.                                              *)

\* line 120: the status test
ResumeCheck(c) ==
    /\ calls[c].pc = "idle" /\ lock # c
    /\ IF status # "verification"
       THEN calls' = [calls EXCEPT ![c].pc = "r121", ![c].after = prevResume]
       ELSE calls' = [calls EXCEPT ![c].pc = "r122", ![c].after = prevResume]
    /\ UNCHANGED <<status, logs, output_path, resume_event, workers, files, pushed, prevResume, fn, lock, poll, poster>>

\* line 121: status is read again for the return value
Resume121(c) ==
    /\ calls[c].pc = "r121" /\ lock # c
    /\ Returns(c, status, "noop_resume")
    /\ prevResume' = FALSE
    /\ UNCHANGED <<status, logs, output_path, resume_event, workers, files, pushed, fn, lock, poll, poster>>

\* line 122
Resume122(c) ==
    /\ calls[c].pc = "r122" /\ lock # c
    /\ CanLog
    /\ logs' = PushLog(LContinue)
    /\ Goto(c, "r123")
    /\ pushed' = pushed + Len(logs') - Len(logs)
    /\ lock' = c
    /\ UNCHANGED <<status, output_path, resume_event, workers, files, prevResume, fn, poll, poster>>

\* lines 123-124: the signal is set; a worker that has detected its challenge
\* and not yet passed the gate has now been resumed
Resume123(c) ==
    /\ calls[c].pc = "r123" /\ lock # c
    /\ resume_event' = TRUE
    /\ Returns(c, "running", "resumed")
    /\ prevResume' = TRUE
    /\ workers' = [w \in WorkerIds |->
                     IF workers[w].gate = "detected"
                     THEN [workers[w] EXCEPT !.gate = "resumed"] ELSE workers[w]]
    /\ UNCHANGED <<status, logs, output_path, files, pushed, fn, lock, poll, poster>>

\* the value reaches the JS caller and the UI thread is free for the next call
Return(c) ==
    /\ calls[c].pc = "ret" /\ lock # c
    /\ calls' = [calls EXCEPT ![c] = IdleCall]
    /\ UNCHANGED <<status, logs, output_path, resume_event, workers, files, pushed, prevResume, fn, lock, poll, poster>>

-----------------------------------------------------------------------------
(* _scrape, one step per access to the shared state.  _login and           *)
(* _handle_verification_if_needed are also run by the poster threads.      *)

\* where _login returns to: line 167 of _scrape, line 197 or 207 of a poster target
AfterLogin(w) == IF workers[w].kind = "scrape" THEN "query_log" ELSE "complete_log"

\* the session _login drives answers: a poster thread may hold a session that
\* was already quit, and every call on it raises
SessionOpen(w) == workers[w].kind # "scrape" => poster.driver = "open"

\* an exception on a page that is answered by writing what was collected
RaiseFlush(w) ==
    workers' = [workers EXCEPT ![w].pc = IF workers[w].kind # "scrape" THEN "pexc_log"
                                         ELSE IF workers[w].pc \in {"page_nav", "page_find", "page_parse"}
                                              THEN "sink" ELSE "exc_log",
                               ![w].raised = TRUE,
                               ![w].cards = <<>>, ![w].parsed = <<>>]

\* an exception raised inside the try block: control goes to the except clause
\* of the thread's target (line 180, 198 or 218); the rows collected so far are
\* not used again, and page stays at the page that failed
Raise(w) ==
    workers' = [workers EXCEPT ![w].pc = IF workers[w].kind = "scrape" THEN "exc_log" ELSE "pexc_log",
                               ![w].raised = TRUE,
                               ![w].results = <<>>, ![w].cards = <<>>, ![w].parsed = <<>>,
                               ![w].visited = <<>>, ![w].kept = <<>>]

\* lines 155-156: normalisation and the required-field test; an exception of
\* _normalize_payload is outside the try block and ends the thread
WStart(w) ==
    /\ At(w, "start")
    /\ LET r == NormalizePayload(workers[w].payload)
       IN  workers' = [workers EXCEPT
                ![w].pc = IF r.exc # "none" THEN "crashed"
                          ELSE IF MissingRequired(r.data) THEN "miss_log" ELSE "create",
                ![w].payload = NoPayload,
                ![w].data = r.data]
    /\ UNCHANGED <<status, logs, output_path, resume_event, calls, files, pushed, prevResume, fn, lock, poll, poster>>

\* line 157
WMissLog(w) ==
    /\ At(w, "miss_log")
    /\ CanLog
    /\ logs' = PushLog(LMissing)
    /\ WGoto(w, "miss_status")
    /\ pushed' = pushed + Len(logs') - Len(logs)
    /\ lock' = Tid(w)
    /\ UNCHANGED <<status, output_path, resume_event, calls, files, prevResume, fn, poll, poster>>

\* lines 158-159
WMissStatus(w) ==
    /\ At(w, "miss_status")
    /\ status' = "error"
    /\ workers' = [workers EXCEPT ![w].pc = "done", ![w].wrote = "error"]
    /\ UNCHANGED <<logs, output_path, resume_event, calls, files, pushed, prevResume, fn, lock, poll, poster>>

\* line 165: _create_driver returns a session or raises
WCreate(w) ==
    /\ At(w, "create")
    /\ \/ workers' = [workers EXCEPT ![w].pc = "login", ![w].driver = "open"]
       \/ Raise(w)
    /\ UNCHANGED <<status, logs, output_path, resume_event, calls, files, pushed, prevResume, fn, lock, poll, poster>>

\* lines 260-265: the login form is filled and submitted, or a browser call raises
WLogin(w) ==
    /\ At(w, "login")
    /\ \/ SessionOpen(w) /\ WGoto(w, "login_log")
       \/ Raise(w)
    /\ UNCHANGED <<status, logs, output_path, resume_event, calls, files, pushed, prevResume, fn, lock, poll, poster>>

\* line 266
WLoginLog(w) ==
    /\ At(w, "login_log")
    /\ CanLog
    /\ logs' = PushLog(LLogin)
    /\ WGoto(w, "detect")
    /\ pushed' = pushed + Len(logs') - Len(logs)
    /\ lock' = Tid(w)
    /\ UNCHANGED <<status, output_path, resume_event, calls, files, prevResume, fn, poll, poster>>

\* lines 270-271: _is_verification_prompt_present finds a challenge, finds none, or raises
WDetect(w) ==
    /\ At(w, "detect")
    /\ \/ WGoto(w, "ver_status")
       \/ WGoto(w, AfterLogin(w))
       \/ Raise(w)
    /\ UNCHANGED <<status, logs, output_path, resume_event, calls, files, pushed, prevResume, fn, lock, poll, poster>>

\* line 272
WVerStatus(w) ==
    /\ At(w, "ver_status")
    /\ status' = "verification"
    /\ workers' = [workers EXCEPT ![w].pc = "ver_log", ![w].wrote = "verification",
                                  ![w].gate = "detected"]
    /\ UNCHANGED <<logs, output_path, resume_event, calls, files, pushed, prevResume, fn, lock, poll, poster>>

\* line 273
WVerLog(w) ==
    /\ At(w, "ver_log")
    /\ CanLog
    /\ logs' = PushLog(LVerify)
    /\ WGoto(w, "ver_clear")
    /\ pushed' = pushed + Len(logs') - Len(logs)
    /\ lock' = Tid(w)
    /\ UNCHANGED <<status, output_path, resume_event, calls, files, prevResume, fn, poll, poster>>

\* line 274
WVerClear(w) ==
    /\ At(w, "ver_clear")
    /\ resume_event' = FALSE
    /\ WGoto(w, "ver_wait")
    /\ UNCHANGED <<status, logs, output_path, calls, files, pushed, prevResume, fn, lock, poll, poster>>

\* a wait that returns whether or not the flag is set
WVerWaitNoSignal(w) ==
    /\ At(w, "ver_wait")
    /\ workers' = [workers EXCEPT ![w].pc = "ver_ack", ![w].gate = "passed"]
    /\ UNCHANGED <<status, logs, output_path, resume_event, calls, files, pushed, prevResume, fn, lock, poll, poster>>

\* line 275: Event.wait() returns once the flag is set
WVerWait(w) ==
    /\ At(w, "ver_wait")
    /\ resume_event
    /\ workers' = [workers EXCEPT ![w].pc = "ver_ack", ![w].gate = "passed"]
    /\ UNCHANGED <<status, logs, output_path, resume_event, calls, files, pushed, prevResume, fn, lock, poll, poster>>

\* line 276
WVerAck(w) ==
    /\ At(w, "ver_ack")
    /\ CanLog
    /\ logs' = PushLog(LAck)
    /\ WGoto(w, "ver_running")
    /\ pushed' = pushed + Len(logs') - Len(logs)
    /\ lock' = Tid(w)
    /\ UNCHANGED <<status, output_path, resume_event, calls, files, prevResume, fn, poll, poster>>

\* lines 277-278
WVerRunning(w) ==
    /\ At(w, "ver_running")
    /\ status' = "running"
    /\ workers' = [workers EXCEPT ![w].pc = AfterLogin(w), ![w].wrote = "running"]
    /\ UNCHANGED <<logs, output_path, resume_event, calls, files, pushed, prevResume, fn, lock, poll, poster>>

\* lines 167-169
WQueryLog(w) ==
    /\ At(w, "query_log")
    /\ CanLog
    /\ logs' = PushLog(LQuery)
    /\ workers' = [workers EXCEPT ![w].pc = "page_log", ![w].page = 1]
    /\ pushed' = pushed + Len(logs') - Len(logs)
    /\ lock' = Tid(w)
    /\ UNCHANGED <<status, output_path, resume_event, calls, files, prevResume, fn, poll, poster>>

\* lines 171-172 and 176: the loop test, then the entry of the branch taken
WPageLog(w) ==
    /\ At(w, "page_log")
    /\ CanLog
    /\ IF workers[w].page <= workers[w].data.page_limit
       THEN /\ logs' = PushLog(Entry("Scraping page", workers[w].page, workers[w].data.page_limit))
            /\ WGoto(w, "page_nav")
       ELSE /\ logs' = PushLog(Entry("Collected posts. Writing CSV...", Len(workers[w].results), 0))
            /\ WGoto(w, "sink")
    /\ pushed' = pushed + Len(logs') - Len(logs)
    /\ lock' = Tid(w)
    /\ UNCHANGED <<status, output_path, resume_event, calls, files, prevResume, fn, poll, poster>>

\* line 311: driver.get has loaded page workers[w].page
Visit(w) ==
    workers' = [workers EXCEPT ![w].pc = "page_find",
                               ![w].visited = Append(workers[w].visited, workers[w].page)]

\* lines 311-312: the page is loaded (or the browser raises) and the wait for
\* results succeeds or times out with a log entry
WPageNav(w) ==
    /\ At(w, "page_nav")
    /\ \/ Visit(w) /\ UNCHANGED logs
       \/ CanLog /\ Visit(w) /\ logs' = PushLog(LNoResults)
       \/ Raise(w) /\ UNCHANGED logs
    /\ pushed' = pushed + Len(logs') - Len(logs)
    /\ lock' = IF logs' = logs THEN lock ELSE Tid(w)
    /\ UNCHANGED <<status, output_path, resume_event, calls, files, prevResume, fn, poll, poster>>

\* lines 313-315: the scroll and _find_cards
WPageFind(w) ==
    /\ At(w, "page_find")
    /\ \/ \E cards \in PageCardLists :
            /\ cards = <<>> => CanLog
            /\ workers' = [workers EXCEPT ![w].pc = "page_parse", ![w].cards = cards,
                                          ![w].parsed = <<>>]
            /\ logs' = IF cards = <<>> THEN PushLog(LNoCards) ELSE logs
       \/ Raise(w) /\ UNCHANGED logs
    /\ pushed' = pushed + Len(logs') - Len(logs)
    /\ lock' = IF logs' = logs THEN lock ELSE Tid(w)
    /\ UNCHANGED <<status, output_path, resume_event, calls, files, prevResume, fn, poll, poster>>

\* a page end that drops the rows already collected from earlier pages
WPageParseDedup(w) ==
    /\ At(w, "page_parse")
    /\ pushed < MaxPushes
    /\ IF workers[w].cards # <<>>
       THEN LET r == ParsePostCard(Head(workers[w].cards))
            IN  /\ logs' = logs \o r.log
                /\ workers' = [workers EXCEPT
                       ![w].cards = Tail(workers[w].cards),
                       ![w].parsed = IF r.ret = "row" THEN Append(workers[w].parsed, r.row)
                                     ELSE workers[w].parsed]
       ELSE /\ logs' = PushLog(Entry("Page: posts captured.", workers[w].page, Len(workers[w].parsed)))
            /\ workers' = [workers EXCEPT
                   ![w].pc = "page_log",
                   ![w].results = workers[w].results \o
                       SelectSeq(workers[w].parsed,
                                 LAMBDA r : \A i \in 1..Len(workers[w].results) :
                                               workers[w].results[i] # r),
                   ![w].kept = Append(workers[w].kept, workers[w].parsed),
                   ![w].parsed = <<>>,
                   ![w].page = workers[w].page + 1]
    /\ logs' # logs => lock = "free"
    /\ pushed' = pushed + Len(logs') - Len(logs)
    /\ lock' = IF logs' = logs THEN lock ELSE Tid(w)
    /\ UNCHANGED <<status, output_path, resume_event, calls, files, prevResume, fn, poll, poster>>

\* lines 316-321 and 174: one card is parsed, or the page is closed
WPageParse(w) ==
    /\ At(w, "page_parse")
    /\ pushed < MaxPushes
    /\ IF workers[w].cards # <<>>
       THEN LET r == ParsePostCard(Head(workers[w].cards))
            IN  /\ logs' = logs \o r.log
                /\ workers' = [workers EXCEPT
                       ![w].cards = Tail(workers[w].cards),
                       ![w].parsed = IF r.ret = "row" THEN Append(workers[w].parsed, r.row)
                                     ELSE workers[w].parsed]
       ELSE /\ logs' = PushLog(Entry("Page: posts captured.", workers[w].page, Len(workers[w].parsed)))
            /\ workers' = [workers EXCEPT
                   ![w].pc = "page_log",
                   ![w].results = workers[w].results \o workers[w].parsed,
                   ![w].kept = Append(workers[w].kept, workers[w].parsed),
                   ![w].parsed = <<>>,
                   ![w].page = workers[w].page + 1]
    /\ logs' # logs => lock = "free"
    /\ pushed' = pushed + Len(logs') - Len(logs)
    /\ lock' = IF logs' = logs THEN lock ELSE Tid(w)
    /\ UNCHANGED <<status, output_path, resume_event, calls, files, prevResume, fn, poll, poster>>

\* line 177: the file is written and its path stored, or the write raises
WSink(w) ==
    /\ At(w, "sink")
    /\ \/ /\ files' = Append(files, WriteCsv(workers[w].results))
          /\ output_path' = Path(Len(files) + 1)
          /\ WGoto(w, "done_log")
       \/ Raise(w) /\ UNCHANGED <<files, output_path>>
    /\ UNCHANGED <<status, logs, resume_event, calls, pushed, prevResume, fn, lock, poll, poster>>

\* line 178: the entry is formatted from self.output_path as it is now
WDoneLog(w) ==
    /\ At(w, "done_log")
    /\ CanLog
    /\ logs' = PushLog(Entry("Done. Saved to", IF output_path = NoPath THEN 0 ELSE output_path[2], 0))
    /\ WGoto(w, "set_idle")
    /\ pushed' = pushed + Len(logs') - Len(logs)
    /\ lock' = Tid(w)
    /\ UNCHANGED <<status, output_path, resume_event, calls, files, prevResume, fn, poll, poster>>

\* line 179
WSetIdle(w) ==
    /\ At(w, "set_idle")
    /\ status' = "idle"
    /\ workers' = [workers EXCEPT ![w].pc = "finally", ![w].wrote = "idle"]
    /\ UNCHANGED <<logs, output_path, resume_event, calls, files, pushed, prevResume, fn, lock, poll, poster>>

\* line 181
WExcLog(w) ==
    /\ At(w, "exc_log")
    /\ CanLog
    /\ logs' = PushLog(LError)
    /\ WGoto(w, "exc_status")
    /\ pushed' = pushed + Len(logs') - Len(logs)
    /\ lock' = Tid(w)
    /\ UNCHANGED <<status, output_path, resume_event, calls, files, prevResume, fn, poll, poster>>

WExcStatusIdle(w) ==
    /\ At(w, "exc_status")
    /\ status' = "idle"
    /\ workers' = [workers EXCEPT ![w].pc = "finally", ![w].wrote = "idle"]
    /\ UNCHANGED <<logs, output_path, resume_event, calls, files, pushed, prevResume, fn, lock, poll, poster>>

\* line 182
WExcStatus(w) ==
    /\ At(w, "exc_status")
    /\ status' = "error"
    /\ workers' = [workers EXCEPT ![w].pc = "finally", ![w].wrote = "error"]
    /\ UNCHANGED <<logs, output_path, resume_event, calls, files, pushed, prevResume, fn, lock, poll, poster>>

\* a finally clause that leaves the session as it is
WFinallyNoQuit(w) ==
    /\ At(w, "finally")
    /\ workers' = [workers EXCEPT
           ![w].pc = "done",
           ![w].results = <<>>, ![w].cards = <<>>, ![w].parsed = <<>>, ![w].page = 0,
           ![w].visited = <<>>, ![w].kept = <<>>, ![w].gate = "none"]
    /\ UNCHANGED <<status, logs, output_path, resume_event, calls, files, pushed, prevResume, fn, lock, poll, poster>>

\* lines 183-185
WFinally(w) ==
    /\ At(w, "finally")
    /\ workers' = [workers EXCEPT
           ![w].pc = "done",
           ![w].driver = IF workers[w].driver = "open" THEN "closed" ELSE workers[w].driver,
           ![w].results = <<>>, ![w].cards = <<>>, ![w].parsed = <<>>, ![w].page = 0,
           ![w].visited = <<>>, ![w].kept = <<>>, ![w].gate = "none"]
    /\ UNCHANGED <<status, logs, output_path, resume_event, calls, files, pushed, prevResume, fn, lock, poll, poster>>

-----------------------------------------------------------------------------

\* line 95: the with block of _push_log ends
WRelease(w) ==
    /\ w \in WorkerIds
    /\ lock = Tid(w)
    /\ lock' = "free"
    /\ UNCHANGED <<status, logs, output_path, resume_event, workers, calls, files, pushed,
                   prevResume, poll, poster, fn>>

\* line 95, for a push made by an entry point
CRelease(c) ==
    /\ lock = c
    /\ lock' = "free"
    /\ UNCHANGED <<status, logs, output_path, resume_event, workers, calls, files, pushed,
                   prevResume, poll, poster, fn>>

WorkerStep(w) ==
    \/ WRelease(w)
    \/ WStart(w) \/ WMissLog(w) \/ WMissStatus(w)
    \/ WCreate(w) \/ WLogin(w) \/ WLoginLog(w) \/ WDetect(w)
    \/ WVerStatus(w) \/ WVerLog(w) \/ WVerClear(w) \/ WVerWait(w) \/ WVerAck(w) \/ WVerRunning(w)
    \/ WQueryLog(w) \/ WPageLog(w) \/ WPageNav(w) \/ WPageFind(w) \/ WPageParse(w)
    \/ WSink(w) \/ WDoneLog(w) \/ WSetIdle(w)
    \/ WExcLog(w) \/ WExcStatus(w) \/ WFinally(w)

CallStep(c) ==
    \/ CRelease(c)
    \/ StartCheck(c) \/ Start110(c) \/ Start111(c) \/ Start112(c) \/ Start113(c)
    \/ Start114(c) \/ Start115(c)
    \/ ResumeCheck(c) \/ Resume121(c) \/ Resume122(c) \/ Resume123(c)
    \/ Return(c)

Next ==
    \/ \E c \in Callers : CallStep(c)
    \/ \E w \in 1..MaxStarts : WorkerStep(w)

Spec == Init /\ [][Next]_vars

-----------------------------------------------------------------------------
(* get_progress, called by the UI on a timer: the three fields are read    *)
(* one after the other with the lock held.  StatusResets, LogsResets and   *)
(* PathResets count the executions of lines 110, 111 and 112 so far; the   *)
(* copy records them as history, to tell which run a value it read is of.  *)

Resetting(pcs) == IF \E c \in Callers : calls[c].pc \in pcs THEN 1 ELSE 0
ScrapeThreads == {w \in WorkerIds : workers[w].kind = "scrape"}
StatusResets == Cardinality(ScrapeThreads) + Resetting({"s111", "s112", "s113", "s114", "s115"})
LogsResets   == Cardinality(ScrapeThreads) + Resetting({"s112", "s113", "s114", "s115"})
PathResets   == Cardinality(ScrapeThreads) + Resetting({"s113", "s114", "s115"})

\* line 98: the lock is taken
PollAcquire ==
    /\ poll.pc = "idle"
    /\ lock = "free"
    /\ lock' = "poll"
    /\ poll' = [poll EXCEPT !.pc = "g100"]
    /\ UNCHANGED <<status, logs, output_path, resume_event, workers, calls, files, pushed,
                   prevResume, poster, fn>>

\* line 100
PollLogs ==
    /\ poll.pc = "g100"
    /\ poll' = [poll EXCEPT !.pc = "g101", !.logs = logs, !.logsRun = LogsResets]
    /\ UNCHANGED <<status, logs, output_path, resume_event, workers, calls, files, pushed,
                   prevResume, lock, poster, fn>>

\* line 101
PollStatus ==
    /\ poll.pc = "g101"
    /\ poll' = [poll EXCEPT !.pc = "g102", !.status = status, !.statusRun = StatusResets]
    /\ UNCHANGED <<status, logs, output_path, resume_event, workers, calls, files, pushed,
                   prevResume, lock, poster, fn>>

\* the copy get_progress returns when it reads output_path in this state
Snapshot == [logs |-> poll.logs, status |-> poll.status, output_path |-> output_path]

\* lines 102-103: the last field is read, the lock released and Snapshot
\* returned to the JS poller
PollPath ==
    /\ poll.pc = "g102"
    /\ poll' = IdlePoll
    /\ lock' = "free"
    /\ UNCHANGED <<status, logs, output_path, resume_event, workers, calls, files, pushed,
                   prevResume, poster, fn>>

PollStep == PollAcquire \/ PollLogs \/ PollStatus \/ PollPath

\* the scrape workflow with the poller
NextPoll ==
    \/ \E c \in Callers : CallStep(c)
    \/ \E w \in 1..MaxStarts : WorkerStep(w)
    \/ PollStep

SpecPoll == Init /\ [][NextPoll]_vars

-----------------------------------------------------------------------------
(* poster_login and poster_generate_and_post, and the threads they start.  *)

PGoto(c, pc) == poster' = [poster EXCEPT !.calls[c].pc = pc]
PReturns(c, ret) == poster' = [poster EXCEPT !.calls[c].pc = "ret", !.calls[c].ret = ret]

PosterThreads == {w \in WorkerIds : workers[w].kind # "scrape"}
LivePosterWorkers == {w \in PosterThreads : Alive(w)}

\* a Thread object as lines 134 / 147 create it: not started yet
NewPosterThread(op, creds) ==
    [NewWorker(NoPayload) EXCEPT !.pc = "unstarted", !.kind = op, !.creds = creds]

\* lines 127-129 and 139-142: the payload is read and the required fields
\* (email and password, or the title) are tested
PosterEnter(c) ==
    /\ poster.calls[c].pc = "idle" /\ lock # c
    /\ poster.entered < MaxPosterCalls
    /\ \E op \in {"poster_login", "poster_post"}, ok \in BOOLEAN, creds \in BOOLEAN :
          /\ op = "poster_login" => creds = ok
          /\ poster' = [poster EXCEPT !.calls[c].pc = IF ok THEN "p_check" ELSE "p_missing",
                                      !.calls[c].op = op, !.calls[c].creds = creds,
                                      !.entered = poster.entered + 1]
    /\ UNCHANGED <<status, logs, output_path, resume_event, workers, calls, files, pushed,
                   prevResume, lock, poll, fn>>

\* lines 130-131 and 143-144
PosterMissing(c) ==
    /\ poster.calls[c].pc = "p_missing" /\ lock # c
    /\ CanLog
    /\ logs' = PushLog(IF poster.calls[c].op = "poster_login" THEN LPosterNoCreds ELSE LPosterNoTitle)
    /\ PReturns(c, "error")
    /\ pushed' = pushed + 1
    /\ lock' = c
    /\ UNCHANGED <<status, output_path, resume_event, workers, calls, files, prevResume, poll, fn>>

\* lines 132-133 and 145-146: the test of self._poster_thread, and the early return
PosterCheck(c) ==
    /\ poster.calls[c].pc = "p_check" /\ lock # c
    /\ IF poster.thread # 0 /\ Alive(poster.thread)
       THEN PReturns(c, "running")
       ELSE /\ Cardinality(PosterThreads) < MaxPosterStarts
            /\ PGoto(c, "p_new")
    /\ UNCHANGED <<status, logs, output_path, resume_event, workers, calls, files, pushed,
                   prevResume, lock, poll, fn>>

\* lines 134 and 147-149: the Thread is created and stored in self._poster_thread
PosterNew(c) ==
    /\ poster.calls[c].pc = "p_new" /\ lock # c
    /\ workers' = Append(workers, NewPosterThread(poster.calls[c].op, poster.calls[c].creds))
    /\ poster' = [poster EXCEPT !.thread = Len(workers) + 1, !.calls[c].pc = "p_start"]
    /\ UNCHANGED <<status, logs, output_path, resume_event, calls, files, pushed,
                   prevResume, lock, poll, fn>>

\* lines 135-136 and 150-151: self._poster_thread.start(); starting a Thread a
\* second time raises RuntimeError out of the entry point
PosterStart(c) ==
    /\ poster.calls[c].pc = "p_start" /\ lock # c
    /\ IF workers[poster.thread].pc = "unstarted"
       THEN /\ workers' = [workers EXCEPT ![poster.thread].pc = "pstart"]
            /\ PReturns(c, "running")
       ELSE /\ UNCHANGED workers
            /\ PReturns(c, "RuntimeError")
    /\ UNCHANGED <<status, logs, output_path, resume_event, calls, files, pushed,
                   prevResume, lock, poll, fn>>

\* the value reaches the JS caller
PosterReturn(c) ==
    /\ poster.calls[c].pc = "ret" /\ lock # c
    /\ poster' = [poster EXCEPT !.calls[c] = IdlePosterCall]
    /\ UNCHANGED <<status, logs, output_path, resume_event, workers, calls, files, pushed,
                   prevResume, lock, poll, fn>>

\* _poster_login lines 189-193: a session left by an earlier poster thread is
\* quit; _poster_generate_and_post lines 203-204: the tests of the credentials
\* and of self._poster_driver
PStart(w) ==
    /\ At(w, "pstart")
    /\ IF workers[w].kind = "poster_login"
       THEN /\ poster' = [poster EXCEPT !.driver = IF poster.driver = "open" THEN "quit" ELSE poster.driver]
            /\ WGoto(w, "pcreate")
       ELSE /\ UNCHANGED poster
            /\ WGoto(w, IF ~workers[w].creds THEN "gen"
                        ELSE IF poster.driver = "none" THEN "pcreate" ELSE "open_log")
    /\ UNCHANGED <<status, logs, output_path, resume_event, calls, files, pushed,
                   prevResume, lock, poll, fn>>

\* lines 194 and 205: _create_driver returns a session or raises
PCreate(w) ==
    /\ At(w, "pcreate")
    /\ \/ poster' = [poster EXCEPT !.driver = "open"] /\ WGoto(w, "open_log")
       \/ UNCHANGED poster /\ Raise(w)
    /\ UNCHANGED <<status, logs, output_path, resume_event, calls, files, pushed,
                   prevResume, lock, poll, fn>>

\* lines 195 and 206; _login follows (WLogin .. WVerRunning)
POpenLog(w) ==
    /\ At(w, "open_log")
    /\ CanLog
    /\ logs' = PushLog(LPosterOpen)
    /\ WGoto(w, "login")
    /\ pushed' = pushed + 1
    /\ lock' = Tid(w)
    /\ UNCHANGED <<status, output_path, resume_event, calls, files, prevResume, poll, poster, fn>>

\* lines 197 and 208
PCompleteLog(w) ==
    /\ At(w, "complete_log")
    /\ CanLog
    /\ logs' = PushLog(LPosterDone)
    /\ WGoto(w, IF workers[w].kind = "poster_login" THEN "done" ELSE "gen")
    /\ pushed' = pushed + 1
    /\ lock' = Tid(w)
    /\ UNCHANGED <<status, output_path, resume_event, calls, files, prevResume, poll, poster, fn>>

\* lines 209-210: the text and the image are generated; a helper that falls
\* back logs its error, and an uncaught exception goes to line 218
PGen(w) ==
    /\ At(w, "gen")
    /\ \/ WGoto(w, "image_log") /\ UNCHANGED <<logs, pushed, lock>>
       \/ /\ CanLog
          /\ logs' = PushLog(LGenError)
          /\ pushed' = pushed + 1
          /\ lock' = Tid(w)
          /\ WGoto(w, "image_log")
       \/ Raise(w) /\ UNCHANGED <<logs, pushed, lock>>
    /\ UNCHANGED <<status, output_path, resume_event, calls, files, prevResume, poll, poster, fn>>

\* lines 211-214
PImageLog(w) ==
    /\ At(w, "image_log")
    /\ CanLog
    /\ \E e \in {LImage, LNoImage} : logs' = PushLog(e)
    /\ WGoto(w, "pdf")
    /\ pushed' = pushed + 1
    /\ lock' = Tid(w)
    /\ UNCHANGED <<status, output_path, resume_event, calls, files, prevResume, poll, poster, fn>>

\* line 215: _generate_post_pdf returns a path, or logs its error and returns
\* None, or raises
PPdf(w) ==
    /\ At(w, "pdf")
    /\ \/ WGoto(w, "pdf_log") /\ UNCHANGED <<logs, pushed, lock>>
       \/ /\ CanLog
          /\ logs' = PushLog(LGenError)
          /\ pushed' = pushed + 1
          /\ lock' = Tid(w)
          /\ WGoto(w, "done")
       \/ Raise(w) /\ UNCHANGED <<logs, pushed, lock>>
    /\ UNCHANGED <<status, output_path, resume_event, calls, files, prevResume, poll, poster, fn>>

\* lines 216-217
PPdfLog(w) ==
    /\ At(w, "pdf_log")
    /\ CanLog
    /\ logs' = PushLog(LPdf)
    /\ WGoto(w, "done")
    /\ pushed' = pushed + 1
    /\ lock' = Tid(w)
    /\ UNCHANGED <<status, output_path, resume_event, calls, files, prevResume, poll, poster, fn>>

\* lines 198-199 and 218-219
PExcLog(w) ==
    /\ At(w, "pexc_log")
    /\ CanLog
    /\ logs' = PushLog(LPosterError)
    /\ WGoto(w, "done")
    /\ pushed' = pushed + 1
    /\ lock' = Tid(w)
    /\ UNCHANGED <<status, output_path, resume_event, calls, files, prevResume, poll, poster, fn>>

PosterCallStep(c) ==
    \/ PosterEnter(c) \/ PosterMissing(c) \/ PosterCheck(c) \/ PosterNew(c) \/ PosterStart(c)
    \/ PosterReturn(c) \/ CRelease(c)

PosterThreadStep(w) ==
    \/ PStart(w) \/ PCreate(w) \/ POpenLog(w)
    \/ WLogin(w) \/ WLoginLog(w) \/ WDetect(w)
    \/ WVerStatus(w) \/ WVerLog(w) \/ WVerClear(w)
    \/ PCompleteLog(w) \/ PGen(w) \/ PImageLog(w) \/ PPdf(w) \/ PPdfLog(w) \/ PExcLog(w)
    \/ WRelease(w)

\* the poster workflow on its own: no scrape job is started and the user does
\* not click Continue, so a poster thread that meets a challenge stays at the
\* wait of line 275
NextPoster ==
    \/ \E c \in PosterCallers : PosterCallStep(c)
    \/ \E w \in 1..MaxPosterStarts : PosterThreadStep(w)

SpecPoster == Init /\ [][NextPoster]_vars

-----------------------------------------------------------------------------
(* _normalize_payload on its own: one request is drawn and normalised.     *)

InitNorm == InitApi /\ \E p \in NormPayloads : fn = [name |-> "normalize", arg |-> p, out |-> <<>>]

ApplyNormalize ==
    /\ fn.name = "normalize"
    /\ fn.out = <<>>
    /\ fn' = [fn EXCEPT !.out = <<NormalizePayload(fn.arg)>>]
    /\ UNCHANGED <<status, logs, output_path, resume_event, workers, calls, files, pushed, prevResume, lock, poll, poster>>

NextNorm == ApplyNormalize

SpecNorm == InitNorm /\ [][NextNorm]_vars

(* _parse_post_card on its own: one card is drawn and parsed.              *)

InitParse == InitApi /\ \E card \in ParseCards : fn = [name |-> "parse", arg |-> card, out |-> <<>>]

ApplyParse ==
    /\ fn.name = "parse"
    /\ fn.out = <<>>
    /\ LET r == ParsePostCard(fn.arg)
       IN  /\ fn' = [fn EXCEPT !.out = <<r>>]
           /\ logs' = logs \o r.log
           /\ pushed' = pushed + Len(r.log)
    /\ UNCHANGED <<status, output_path, resume_event, workers, calls, files, prevResume, lock, poll, poster>>

NextParse == ApplyParse

SpecParse == InitParse /\ [][NextParse]_vars

-----------------------------------------------------------------------------
(* Properties.                                                             *)

IsPrefix(a, b) == Len(a) <= Len(b) /\ SubSeq(b, 1, Len(a)) = a

LiveWorkers == {w \in WorkerIds : workers[w].kind = "scrape" /\ Alive(w)}

\* the job of worker w has not written its terminal status yet
RunInFlight(w) == workers[w].pc \notin {"finally", "done", "crashed"}

\* C1: at most one _scrape worker is alive at any time.
C1_AtMostOneWorker == Cardinality(LiveWorkers) <= 1

\* C2: a start_scrape call that finds status "running" returns {status: running}
\* at once, starts no worker and leaves logs, output_path, status and the
\* resume signal as they were.
C2_StartWhileRunningIsNoOp ==
    [][\A c \in Callers :
         (calls[c].pc = "idle" /\ calls'[c].pc \in {"ret", "s110"} /\ status = "running")
         => /\ calls'[c].pc = "ret"
            /\ calls'[c].ret = "running"
            /\ calls'[c].kind = "noop_start"
            /\ UNCHANGED <<status, logs, output_path, resume_event, workers>>]_vars

\* C2 witness: such a call has returned while a job is running with entries logged.
C2_Witness ==
    \E c \in Callers :
        /\ calls[c].pc = "ret" /\ calls[c].kind = "noop_start" /\ calls[c].ret = "running"
        /\ status = "running" /\ Len(logs) >= 2 /\ LiveWorkers # {}

\* C3: a worker that detected a challenge has set status "verification", and
\* once a resume call made during its pause has set the signal the worker is
\* not left blocked at the gate: when it waits, the signal is set.
C3_ResumeUnblocks ==
    \A w \in WorkerIds :
        /\ workers[w].gate \in {"detected", "resumed"} => workers[w].wrote = "verification"
        /\ (workers[w].gate = "resumed" /\ workers[w].pc = "ver_wait") => resume_event

\* C4: a resume call that finds status other than "verification" changes
\* nothing and returns the status; and a resume call that directly follows a
\* successful one does not get past the status test.
C4_SecondResumeNoOps ==
    [][\A c \in Callers :
         /\ (calls[c].pc = "r121" /\ calls'[c].pc # "r121")
            => /\ calls'[c].ret = status /\ calls'[c].kind = "noop_resume"
               /\ UNCHANGED <<status, logs, output_path, resume_event, workers>>
         /\ calls'[c].after => calls'[c].pc # "r122"]_vars

\* C5: a job whose email, password or search term is empty after normalisation
\* logs the missing-fields message, sets status "error" and ends, and never
\* creates a browser session.
C5_MissingFieldsEndInError ==
    [][\A w \in WorkerIds :
         LET d  == workers'[w].data
             empty == d.email = <<>> \/ ~Truthy(d.password) \/ d.search_term = <<>>
         IN  (workers'[w].pc \notin {"start", "crashed"} /\ empty)
             => /\ workers'[w].driver = "none"
                /\ workers'[w].pc \in {"miss_log", "miss_status", "done"}
                /\ (workers[w].pc = "miss_log" /\ workers'[w].pc # "miss_log")
                   => (logs' = Append(logs, LMissing) /\ workers'[w].pc = "miss_status")
                /\ (workers[w].pc = "miss_status" /\ workers'[w].pc # "miss_status")
                   => (status' = "error" /\ workers'[w].pc = "done")
                /\ workers'[w].pc = "done" => workers'[w].wrote = "error"]_vars

\* C5 witness: a job with a blank search term has ended having set status "error".
C5_Witness ==
    \E w \in WorkerIds :
        /\ workers[w].pc = "done" /\ workers[w].data.search_term = <<>>
        /\ workers[w].data.email # <<>>
        /\ workers[w].wrote = "error" /\ workers[w].driver = "none"
        /\ status = "error"

\* C6: output_path is set exactly when the current run has reached its
\* terminal success state; it is empty while status is running, verification
\* or error.
C6_OutputPathIffSuccess ==
    (output_path # NoPath)
        <=> (status = "idle" /\ \E w \in WorkerIds : workers[w].wrote = "idle")

\* C7: an exception raised in the job body is caught: the job logs an Error
\* entry, sets status "error" and ends with it, and never sets status "idle".
C7_ExceptionsEndInError ==
    [][\A w \in WorkerIds :
         /\ (~workers[w].raised /\ workers'[w].raised) => workers'[w].pc = "exc_log"
         /\ workers'[w].raised
            => /\ workers'[w].pc \in {"exc_log", "exc_status", "finally", "done"}
               /\ workers'[w].wrote # "idle"
               /\ workers'[w].pc \in {"finally", "done"} => workers'[w].wrote = "error"
         /\ (workers[w].pc = "exc_log" /\ workers'[w].pc # "exc_log")
            => (logs' = Append(logs, LError) /\ workers'[w].pc = "exc_status")
         /\ (workers[w].pc = "exc_status" /\ workers'[w].pc # "exc_status")
            => status' = "error"]_vars

\* C7 witness: a job whose session was open when a page raised has ended with
\* status "error".
C7_Witness ==
    \E w \in WorkerIds :
        /\ workers[w].pc = "done" /\ workers[w].raised
        /\ workers[w].wrote = "error" /\ workers[w].driver = "closed"
        /\ status = "error" /\ logs # <<>> /\ logs[Len(logs)] = LError

\* C8: while the job of a run is in flight the log only grows by appends.
C8_AppendOnlyWhileInFlight ==
    [][(\E w \in WorkerIds : RunInFlight(w)) => IsPrefix(logs, logs')]_vars

\* C9: _parse_post_card returns no row and logs the skip notice exactly when
\* no author element and no snippet element has text and the post link is
\* empty; otherwise it logs nothing and returns a row with the 12 columns, at
\* least one of author, description and link being non-empty in it.
C9_RowRetention ==
    (fn.name = "parse" /\ fn.out # <<>>)
    => LET card == fn.arg
           r == fn.out[1]
           Blank(els) == \A i \in 1..Len(els) : \A j \in 1..Len(els[i]) : IsSpace(els[i][j])
           noSignal == Blank(card.author) /\ Blank(card.snippet) /\ ExtractPostLink(card) = <<>>
       IN  /\ r.ret = "None" <=> noSignal
           /\ r.ret = "None" => logs = <<LSkip>>
           /\ r.ret # "None"
              => /\ r.ret = "row" /\ logs = <<>>
                 /\ DOMAIN r.row = {Headers[j] : j \in 1..Len(Headers)}
                 /\ Cardinality(DOMAIN r.row) = 12
                 /\ \E h \in {"Author name", "Job Description", "Post Link"} : r.row[h] # <<>>

\* C9 witness: a card with no author and no snippet text but a link yields a row.
C9_Witness ==
    /\ fn.name = "parse" /\ fn.out # <<>>
    /\ fn.out[1].ret = "row"
    /\ fn.out[1].row["Author name"] = <<>> /\ fn.out[1].row["Job Description"] = <<>>
    /\ fn.out[1].row["Post Link"] # <<>>
    /\ fn.arg.author # <<>>

\* C10: for every value of "pages", normalisation does not raise and yields a
\* page limit >= 1, which is 1 for "0" and for a non-numeric string.
C10_PagesCoercion ==
    (fn.name = "normalize" /\ fn.out # <<>>
        /\ fn.arg.email.t \in {"none", "str"} /\ fn.arg.searchTerm.t \in {"none", "str"})
    => LET r == fn.out[1]
           pg == fn.arg.pages
       IN  /\ r.exc = "none"
           /\ r.data.page_limit >= 1
           /\ (pg.t = "str" /\ pg.s \in {<<"0">>, <<"a">>, <<"2", "a">>, <<"-">>})
              => r.data.page_limit = 1

\* C11: every file written by the result sink starts with the header row
\* Author name, Job Title, Location, Job type, Remote/Onsite, Job Description,
\* Post Date/Time, Required Qualification, Required Skills, Post Link,
\* Contact Details, Salary Package, and every data row has 12 values.
C11_SinkColumns ==
    \A i \in 1..Len(files) :
        /\ files[i][1] = <<"Author name", "Job Title", "Location", "Job type", "Remote/Onsite",
                           "Job Description", "Post Date/Time", "Required Qualification",
                           "Required Skills", "Post Link", "Contact Details", "Salary Package">>
        /\ \A k \in 2..Len(files[i]) : Len(files[i][k]) = 12

\* C12: two poster workers are never alive together, and a poster call made
\* while a poster worker is alive creates no thread and returns {status: running}.
C12_AtMostOnePoster ==
    [][/\ Cardinality(LivePosterWorkers') <= 1
       /\ \A c \in PosterCallers :
             LivePosterWorkers # {}
             => /\ poster.calls[c].pc = "p_new" => poster'.calls[c].pc = "p_new"
                /\ (poster.calls[c].pc # "ret" /\ poster'.calls[c].pc = "ret")
                   => poster'.calls[c].ret = "running"]_vars


\* C13: a worker that has detected a challenge stays at the gate (its status
\* write is "verification", it is between lines 273 and 275) until a
\* resume_after_verification call made after its detection has set the
\* signal; only then does it pass the gate, and only a worker that passed the
\* gate writes status "running" or reaches the pagination.
C13_GateNeedsResume ==
    [][\A w \in WorkerIds :
          /\ workers[w].gate \in {"detected", "resumed"}
             => /\ workers[w].pc \in {"ver_log", "ver_clear", "ver_wait"}
                /\ workers[w].wrote = "verification"
          /\ (workers[w].pc = "ver_wait" /\ workers'[w].pc # "ver_wait")
             => /\ workers[w].gate = "resumed"
                /\ resume_event
                /\ workers'[w].pc = "ver_ack"
          /\ (workers[w].gate # "passed" /\ workers'[w].gate = "passed")
             => workers[w].gate = "resumed"
          /\ (workers[w].wrote = "verification" /\ workers'[w].wrote = "running")
             => workers[w].gate = "passed"
          /\ (workers[w].wrote = "verification" /\ workers'[w].pc \in {"query_log", "page_log", "page_nav"})
             => workers[w].gate = "passed"]_vars

C13_Witness ==
    \E w \in WorkerIds :
        /\ workers[w].gate = "passed"
        /\ workers[w].wrote = "running"
        /\ workers[w].pc = "page_log"

\* C14: the session of a scrape job is opened once, at line 165, and closed
\* once, in the finally clause; a worker that has ended has no open session.
C14_SessionClosedOnce ==
    [][\A w \in WorkerIds :
          /\ workers'[w].driver # workers[w].driver
             => \/ /\ workers[w].driver = "none" /\ workers'[w].driver = "open"
                   /\ workers[w].pc = "create"
                \/ /\ workers[w].driver = "open" /\ workers'[w].driver = "closed"
                   /\ workers[w].pc = "finally" /\ workers'[w].pc = "done"
          /\ workers'[w].pc \in {"done", "crashed"} => workers'[w].driver # "open"
          /\ workers[w].pc \in {"login", "query_log", "page_nav", "sink", "set_idle"}
             => workers[w].driver = "open"]_vars

C14_Witness ==
    \E w \in WorkerIds :
        /\ workers[w].pc = "done"
        /\ workers[w].driver = "closed"
        /\ workers[w].raised
        /\ workers[w].wrote = "error"

\* C15: status, logs and output_path change only in a step of a thread that
\* holds the lock: a step that changes one of them starts with the lock free
\* and ends with the lock held, or is made by the holder.
C15_WritesUnderLock ==
    [][(status' # status \/ logs' # logs \/ output_path' # output_path)
       => (lock = "free" /\ lock' # "free")]_vars

\* C16: a copy returned by get_progress with status "running" read after the
\* k-th execution of line 110 holds no log entry and no output path that were
\* read before the k-th execution of line 111, respectively line 112: the
\* reset of a run is seen whole or not at all.
C16_NoTornReset ==
    [][(poll.pc = "g102" /\ poll'.pc = "idle" /\ Snapshot.status = "running")
       => /\ ~(Snapshot.logs # <<>> /\ poll.logsRun < poll.statusRun)
          /\ ~(Snapshot.output_path # NoPath /\ PathResets < poll.statusRun)]_vars

\* C17: a thread holds the lock only inside _push_log or get_progress: no
\* worker and no entry point takes a step of its own (a browser call, a
\* sleep, the wait at the gate) while it holds the lock, a worker blocked at
\* the gate does not hold it, the poller holds it exactly between lines 98
\* and 103, and the lock passes from one thread to another only by a release.
C17_NoBlockingUnderLock ==
    [][/\ \A w \in WorkerIds :
             /\ (workers'[w].pc # workers[w].pc \/ workers'[w].cards # workers[w].cards)
                => lock # Tid(w)
             /\ (workers[w].pc = "ver_wait" /\ ~resume_event) => lock # Tid(w)
       /\ \A c \in Callers : calls'[c] # calls[c] => lock # c
       /\ (lock = "poll") <=> (poll.pc \in {"g100", "g101", "g102"})
       /\ lock # "free" => lock' \in {"free", lock}
       /\ (poll.pc = "g102" /\ poll'.pc = "idle") => lock' = "free"]_vars

C17_Witness ==
    \E w \in WorkerIds :
        /\ workers[w].pc = "ver_wait"
        /\ ~resume_event
        /\ poll.pc = "g102"
        /\ poll.status = "verification"
        /\ poll.logs # <<>>
        /\ poll.logs[Len(poll.logs)] = LVerify

\* C18: a job with page limit N loads page Len(visited) + 1 next, only with
\* the gate behind it, the session open and the previous page closed; the
\* rows of each closed page are appended whole to the accumulated rows; the
\* sink is entered only after page N, with pages 1..N visited in order and
\* all N closed, and its step writes one file holding the accumulated rows;
\* no other step writes a file.
C18_PagesInOrderThenSink ==
    [][/\ \A w \in WorkerIds :
             LET j == workers[w]
                 k == workers'[w]
                 N == j.data.page_limit
             IN  /\ Len(k.visited) > Len(j.visited)
                    => /\ k.visited = Append(j.visited, Len(j.visited) + 1)
                       /\ j.page = Len(j.visited) + 1 /\ j.page <= N
                       /\ Len(j.kept) = Len(j.visited)
                       /\ j.driver = "open" /\ j.gate \in {"none", "passed"}
                       /\ j.wrote \in {"none", "running"}
                 /\ Len(k.kept) > Len(j.kept)
                    => /\ k.kept = Append(j.kept, j.parsed)
                       /\ Len(k.kept) = Len(j.visited)
                       /\ k.results = j.results \o j.parsed
                 /\ (j.pc = "query_log" /\ k.pc # "query_log" /\ ~k.raised)
                    => (k.results = <<>> /\ k.kept = <<>> /\ k.visited = <<>> /\ k.page = 1)
                 /\ (k.kept = j.kept /\ j.pc \in {"page_log", "page_nav", "page_find", "page_parse"}
                        /\ ~k.raised)
                    => k.results = j.results
                 /\ (k.pc = "sink" /\ j.pc # "sink")
                    => /\ j.pc = "page_log" /\ N >= 1
                       /\ j.visited = [i \in 1..N |-> i] /\ Len(j.kept) = N
                 /\ (j.pc = "sink" /\ k.pc = "done_log")
                    => /\ files' = Append(files, WriteCsv(j.results))
                       /\ j.visited = [i \in 1..N |-> i] /\ Len(j.kept) = N
                 /\ j.pc \in {"done_log", "set_idle", "finally", "done"}
                    => k.pc \in {"done_log", "set_idle", "finally", "done"}
       /\ files' # files
          => \E w \in WorkerIds : workers[w].pc = "sink" /\ workers'[w].pc = "done_log"]_vars

C18_Witness ==
    \E w \in WorkerIds :
        /\ workers[w].pc = "done_log"
        /\ workers[w].data.page_limit = 2
        /\ workers[w].visited = <<1, 2>>
        /\ Len(workers[w].results) = 2
        /\ workers[w].results[1] = workers[w].results[2]
        /\ Len(files) = 1 /\ Len(files[1]) = 3

\* C19: a job in which page k of N has raised goes to the except clause and
\* from there to the end of the thread: it loads no further page, keeps no
\* row, never enters the sink, none of its steps writes a file or
\* output_path, and the status it writes is "error".
C19_PageFailureNoSink ==
    [][\A w \in WorkerIds :
          LET j == workers[w]
              k == workers'[w]
          IN  /\ (~j.raised /\ k.raised /\ j.pc \in {"page_nav", "page_find", "page_parse"})
                 => /\ k.pc = "exc_log" /\ k.page = j.page
                    /\ k.page \in 1..j.data.page_limit
                    /\ k.results = <<>>
                    /\ files' = files /\ output_path' = output_path
              /\ (j.raised /\ j.page \in 1..j.data.page_limit)
                 => /\ j.pc \in {"exc_log", "exc_status", "finally"}
                    /\ k.pc \in {"exc_log", "exc_status", "finally", "done"}
                    /\ k.raised /\ k.visited = <<>> /\ k.results = <<>>
                    /\ k.page \in {j.page, 0}
                    /\ k # j => (files' = files /\ output_path' = output_path)
                    /\ (j.pc = "exc_status" /\ k.pc # "exc_status")
                       => (status' = "error" /\ k.wrote = "error")
                    /\ j.pc = "finally" => j.wrote = "error"]_vars

C19_Witness ==
    \E w \in WorkerIds :
        /\ workers[w].raised
        /\ workers[w].data.page_limit = 2 /\ workers[w].page = 2
        /\ workers[w].pc = "finally" /\ workers[w].wrote = "error"
        /\ status = "error" /\ files = <<>> /\ output_path = NoPath

\* C20: whenever status is "running" or "verification" and no start_scrape
\* call is between its status write and the start of its thread, a scrape
\* worker is alive.
C20_RunningHasLiveJob ==
    (/\ status \in {"running", "verification"}
     /\ \A c \in Callers : calls[c].pc \notin {"s111", "s112", "s113", "s114", "s115"})
    => LiveWorkers # {}

\* C21: no step of the poster workflow (poster_login,
\* poster_generate_and_post and the threads they start) changes status,
\* output_path or the resume signal; such a step may only append to logs.
C21_PosterLeavesScrapeState ==
    [][/\ status' = status
       /\ output_path' = output_path
       /\ resume_event' = resume_event
       /\ logs' # logs => (Len(logs') = Len(logs) + 1 /\ SubSeq(logs', 1, Len(logs)) = logs)]_vars

\* C22: when status is idle or error as written by a scrape job, the session
\* that job opened is no longer open.
C22_TerminalStatusSessionClosed ==
    \A w \in WorkerIds :
        (/\ workers[w].kind = "scrape"
         /\ workers[w].wrote \in {"idle", "error"}
         /\ status = workers[w].wrote)
        => workers[w].driver # "open"
=============================================================================
